---- MODULE Spec2Model ----
(***************************************************************************)
(* wtd: extraction of the first wikitable of an HTML page into SQL.        *)
(* Strings are sequences of one-character strings, so that the regular     *)
(* expressions, str::replace, trim and the parsers of src/main.rs act on   *)
(* characters as the code does.                                            *)
(***************************************************************************)
EXTENDS Integers, Sequences, FiniteSets, TLC

VARIABLES
    pc,            \* position of the run inside extract_data / of a text step
    doc,           \* the parsed HTML document given to extract_data
    result,        \* what extract_data returned: "none", "Ok", an error, "Panic"
    headers,       \* Ok value of get_table_headers_and_types_from_html
    tableName,     \* first h1 of the page
    createStmt,    \* statement executed by create_table
    insertStmt,    \* statement built by create_insert_statement
    dbLog,         \* calls made on the database collaborator, in order
    dbTable,       \* whether the CREATE TABLE took effect
    dbRows,        \* number of tuples the INSERT stored
    cell,          \* input string of a text function
    out            \* output of the text function that ran

vars == <<pc, doc, result, headers, tableName, createStmt, insertStmt,
          dbLog, dbTable, dbRows, cell, out>>

----------------------------------------------------------------------------
(* Characters *)

Digits == {"0", "1", "2", "3", "4", "5", "6", "7", "8", "9"}

LowerLetters == <<"a", "b", "c", "d", "e", "f", "g", "h", "i", "j", "k", "l", "m",
                  "n", "o", "p", "q", "r", "s", "t", "u", "v", "w", "x", "y", "z">>

UpperLetters == <<"A", "B", "C", "D", "E", "F", "G", "H", "I", "J", "K", "L", "M",
                  "N", "O", "P", "Q", "R", "S", "T", "U", "V", "W", "X", "Y", "Z">>

Range(f) == {f[i] : i \in DOMAIN f}

Letters == Range(LowerLetters) \cup Range(UpperLetters)

\* the class [a-zA-Z0-9] of the citation pattern
IsAlnum(c) == c \in Letters \cup Digits

\* char::is_whitespace, as used by str::trim
IsWhitespace(c) == c \in {" ", "\n", "\t"}

\* ASCII lower-casing, as the float parser compares "inf", "infinity", "nan"
ToLower(c) ==
    IF c \in Range(UpperLetters)
    THEN LowerLetters[CHOOSE i \in DOMAIN UpperLetters : UpperLetters[i] = c]
    ELSE c

LowerStr(s) == [i \in DOMAIN s |-> ToLower(s[i])]

----------------------------------------------------------------------------
(* std string operations *)

StartsWith(s, pat) == Len(s) >= Len(pat) /\ SubSeq(s, 1, Len(pat)) = pat

\* str::replace(s, pat, rep): every non-overlapping match, left to right
RECURSIVE StrReplace(_, _, _)
StrReplace(s, pat, rep) ==
    IF s = <<>> THEN <<>>
    ELSE IF StartsWith(s, pat)
         THEN rep \o StrReplace(SubSeq(s, Len(pat) + 1, Len(s)), pat, rep)
         ELSE <<Head(s)>> \o StrReplace(Tail(s), pat, rep)

RECURSIVE TrimStart(_)
TrimStart(s) ==
    IF s # <<>> /\ IsWhitespace(Head(s)) THEN TrimStart(Tail(s)) ELSE s

RECURSIVE TrimEnd(_)
TrimEnd(s) ==
    IF s # <<>> /\ IsWhitespace(s[Len(s)]) THEN TrimEnd(SubSeq(s, 1, Len(s) - 1)) ELSE s

\* str::trim
Trim(s) == TrimEnd(TrimStart(s))

\* Vec<String>::join(sep)
RECURSIVE Join(_, _)
Join(ss, sep) ==
    IF ss = <<>> THEN <<>>
    ELSE IF Len(ss) = 1 THEN ss[1]
    ELSE ss[1] \o sep \o Join(Tail(ss), sep)

Count(c, s) == Cardinality({i \in DOMAIN s : s[i] = c})

----------------------------------------------------------------------------
(* Parsers *)

AllDigits(s) == \A i \in DOMAIN s : s[i] \in Digits

RECURSIVE StripZeros(_)
StripZeros(s) == IF s # <<>> /\ Head(s) = "0" THEN StripZeros(Tail(s)) ELSE s

\* a and b digit strings of the same length: a <= b
RECURSIVE DigitsLeq(_, _)
DigitsLeq(a, b) ==
    IF a = <<>> THEN TRUE
    ELSE IF Head(a) = Head(b) THEN DigitsLeq(Tail(a), Tail(b))
    ELSE \E i, j \in 0..9 : /\ ToString(i) = Head(a)
                            /\ ToString(j) = Head(b)
                            /\ i < j

I64MaxDigits == <<"9","2","2","3","3","7","2","0","3","6","8","5","4","7","7","5","8","0","7">>
I64MinDigits == <<"9","2","2","3","3","7","2","0","3","6","8","5","4","7","7","5","8","0","8">>

\* the magnitude d (digits) is in range of i64 with the given sign
InI64Range(d, negative) ==
    LET m == StripZeros(d)
        lim == IF negative THEN I64MinDigits ELSE I64MaxDigits
    IN  \/ Len(m) < Len(lim)
        \/ Len(m) = Len(lim) /\ DigitsLeq(m, lim)

\* str::parse::<i64>() is Ok: optional sign, one or more digits, no overflow
ParseI64(s) ==
    LET signed == s # <<>> /\ Head(s) \in {"+", "-"}
        d == IF signed THEN Tail(s) ELSE s
    IN  /\ d # <<>>
        /\ AllDigits(d)
        /\ InI64Range(d, signed /\ Head(s) = "-")

\* first index at or after j that holds no digit
RECURSIVE DigitRunEnd(_, _)
DigitRunEnd(s, j) ==
    IF j <= Len(s) /\ s[j] \in Digits THEN DigitRunEnd(s, j + 1) ELSE j

\* the exponent part: e or E, optional sign, one or more digits, to the end
IsExponent(s) ==
    /\ s # <<>>
    /\ Head(s) \in {"e", "E"}
    /\ LET r == Tail(s)
           d == IF r # <<>> /\ Head(r) \in {"+", "-"} THEN Tail(r) ELSE r
       IN  d # <<>> /\ AllDigits(d)

\* decimal number: digits [. digits] [exponent], at least one mantissa digit
IsDecimal(s) ==
    LET i == DigitRunEnd(s, 1)
        dot == i <= Len(s) /\ s[i] = "."
        j == IF dot THEN DigitRunEnd(s, i + 1) ELSE i
        nDigits == (i - 1) + (IF dot THEN j - i - 1 ELSE 0)
        rest == SubSeq(s, j, Len(s))
    IN  /\ nDigits > 0
        /\ (rest = <<>> \/ IsExponent(rest))

IsInfNan(s) ==
    LowerStr(s) \in { <<"i","n","f">>,
                      <<"i","n","f","i","n","i","t","y">>,
                      <<"n","a","n">> }

\* str::parse::<f64>() is Ok
ParseF64(s) ==
    LET signed == s # <<>> /\ Head(s) \in {"+", "-"}
        r == IF signed THEN Tail(s) ELSE s
    IN  IsDecimal(r) \/ IsInfNan(r)

\* str::parse::<bool>() is Ok
ParseBool(s) == s \in { <<"t","r","u","e">>, <<"f","a","l","s","e">> }

----------------------------------------------------------------------------
(* Text functions of src/main.rs *)

NBSP == <<"&", "n", "b", "s", "p", ";">>
BR == <<"<", "b", "r", ">">>

\* end of the shortest match of <.*?> whose body starts at j: the first ">"
\* at or after j with no line break before it ("." matches no "\n"); 0 if none
RECURSIVE TagEnd(_, _)
TagEnd(s, j) ==
    IF j > Len(s) THEN 0
    ELSE IF s[j] = ">" THEN j
    ELSE IF s[j] = "\n" THEN 0
    ELSE TagEnd(s, j + 1)

\* Regex (<.*?>) replace_all by ""
RECURSIVE StripTags(_)
StripTags(s) ==
    IF s = <<>> THEN <<>>
    ELSE IF Head(s) = "<" /\ TagEnd(s, 2) > 0
         THEN StripTags(SubSeq(s, TagEnd(s, 2) + 1, Len(s)))
         ELSE <<Head(s)>> \o StripTags(Tail(s))

remove_html_tags(s) ==
    LET cleaned == StrReplace(s, NBSP, <<" ">>)
        replace_br == StrReplace(cleaned, BR, <<" ">>)
    IN  Trim(StripTags(replace_br))

\* first index at or after j that holds no [a-zA-Z0-9]
RECURSIVE AlnumRunEnd(_, _)
AlnumRunEnd(s, j) ==
    IF j <= Len(s) /\ IsAlnum(s[j]) THEN AlnumRunEnd(s, j + 1) ELSE j

\* length of the match of \[[a-zA-Z0-9]+\] at the head of s, 0 if none
CitationLen(s) ==
    IF s # <<>> /\ Head(s) = "["
    THEN LET k == AlnumRunEnd(s, 2)
         IN  IF k > 2 /\ k <= Len(s) /\ s[k] = "]" THEN k ELSE 0
    ELSE 0

RECURSIVE remove_wiki_citation_links(_)
remove_wiki_citation_links(s) ==
    IF s = <<>> THEN <<>>
    ELSE IF CitationLen(s) > 0
         THEN remove_wiki_citation_links(SubSeq(s, CitationLen(s) + 1, Len(s)))
         ELSE <<Head(s)>> \o remove_wiki_citation_links(Tail(s))

clean_integer_or_double_string(i) ==
    LET clean_int == StrReplace(i, <<",">>, <<>>)
    IN  StrReplace(clean_int, <<"%">>, <<>>)

\* variant that leaves apostrophes as they are
remove_apostrophe_identity(s) == s

remove_apostrophe(s) == StrReplace(s, <<"'">>, <<"'", "'">>)

derive_type(sample_datum) ==
    LET html_cleaned_data == remove_html_tags(sample_datum)
        removed_citations == remove_wiki_citation_links(html_cleaned_data)
        cleaned == clean_integer_or_double_string(removed_citations)
    IN  IF ParseI64(cleaned) THEN "INTEGER"
        ELSE IF ParseF64(cleaned) THEN "REAL"
        ELSE IF ParseBool(removed_citations) THEN "NUMERIC"
        ELSE "TEXT"

Quoted(s) == <<"'">> \o s \o <<"'">>

\* the closure clean_row maps over the cells of a row
clean_cell(e) ==
    LET removed_tags == remove_html_tags(e)
        removed_apostrophe == remove_apostrophe(removed_tags)
        removed_citations == remove_wiki_citation_links(removed_apostrophe)
        int_or_double == clean_integer_or_double_string(removed_citations)
        trimmed == Trim(int_or_double)
    IN  IF ParseI64(int_or_double) THEN int_or_double
        ELSE IF ParseF64(int_or_double) THEN int_or_double
        ELSE Quoted(trimmed)

clean_row(row) == [i \in DOMAIN row |-> clean_cell(row[i])]

clean_header_string(header) ==
    LET without_tags == remove_html_tags(header)
        clean_header == remove_wiki_citation_links(without_tags)
    IN  Trim(clean_header)

----------------------------------------------------------------------------
(* The document: what scraper's selectors see of the page.  The table's     *)
(* rows all sit in its tbody; a cell is a th or td element with its         *)
(* inner_html.                                                              *)

Ok(v) == [kind |-> "Ok", val |-> v, err |-> "none"]
Err(e) == [kind |-> "Err", val |-> <<>>, err |-> e]
\* a failed unwrap() or an out-of-range slice: the thread panics
Panic == [kind |-> "Panic", val |-> <<>>, err |-> "none"]

RECURSIVE Flatten(_)
Flatten(ss) == IF ss = <<>> THEN <<>> ELSE Head(ss) \o Flatten(Tail(ss))

Reverse(s) == [i \in DOMAIN s |-> s[Len(s) + 1 - i]]

\* r.select(selector).map(|e| e.inner_html()) for a selector naming cell tags
SelectInnerHtml(row, tags) ==
    LET cells == SelectSeq(row, LAMBDA c : c.tag \in tags)
    IN  [i \in DOMAIN cells |-> cells[i].html]

get_page_title_from_html(body) == body.h1

get_table_header_names(body) ==
    IF ~body.table THEN Err("TableNotFound")
    ELSE IF ~body.tbody THEN Err("TableBodyNotFound")
    ELSE LET rows == [i \in DOMAIN body.rows |-> SelectInnerHtml(body.rows[i], {"th"})]
         IN  IF rows = <<>> THEN Panic      \* rows.get(0).unwrap()
             ELSE Ok([i \in DOMAIN rows[1] |-> clean_header_string(rows[1][i])])

get_table_cells(body) ==
    IF ~body.table THEN Panic               \* .next().unwrap()
    ELSE Ok(Flatten([i \in DOMAIN body.rows |-> SelectInnerHtml(body.rows[i], {"td"})]))

get_table_header_types(body, num) ==
    LET all_data == get_table_cells(body)
    IN  IF all_data.kind = "Panic" THEN Panic
        ELSE IF num > Len(all_data.val) THEN Panic     \* all_data[0..num]
        ELSE Ok([i \in 1..num |-> derive_type(all_data.val[i])])

get_table_headers_and_types_from_html(body) ==
    LET names == get_table_header_names(body)
    IN  IF names.kind # "Ok" THEN names
        ELSE LET types == get_table_header_types(body, Len(names.val))
             IN  IF types.kind = "Panic" THEN Panic
                 ELSE LET table_header_types == Reverse(types.val)
                          n == Len(table_header_types)
                      IN  IF Len(names.val) = n
                          \* the i-th pop() takes the i-th element from the end
                          THEN Ok([i \in DOMAIN names.val |->
                                     <<names.val[i], table_header_types[n + 1 - i]>>])
                          ELSE Err("HeaderAndTypesAmountMismatch")

get_raw_table_rows(body) ==
    IF ~body.table THEN Err("TableNotFound")
    ELSE IF ~body.tbody THEN Err("TableBodyNotFound")
    ELSE Ok([i \in 1..(Len(body.rows) - 1) |->
               SelectInnerHtml(body.rows[i + 1], {"td", "th"})])

----------------------------------------------------------------------------
(* Statements *)

\* SqlTypes::to_string()
SqlTypeName(t) ==
    CASE t = "INTEGER" -> <<"I","N","T","E","G","E","R">>
      [] t = "REAL"    -> <<"R","E","A","L">>
      [] t = "NUMERIC" -> <<"N","U","M","E","R","I","C">>
      [] t = "TEXT"    -> <<"T","E","X","T">>

Underscored(table_name) == StrReplace(table_name, <<" ">>, <<"_">>)

\* String::pop()
Pop(s) == IF s = <<>> THEN s ELSE SubSeq(s, 1, Len(s) - 1)

create_table_string(table_name, headers_and_types) ==
    LET table_columns_vec ==
            [i \in DOMAIN headers_and_types |->
                Quoted(headers_and_types[i][1]) \o <<" ">>
                    \o SqlTypeName(headers_and_types[i][2]) \o <<",">>]
        table_columns == Pop(Join(table_columns_vec, <<" ">>))
    IN  <<"C","R","E","A","T","E"," ","T","A","B","L","E"," ">>
            \o Quoted(Underscored(table_name))
            \o <<" ", "(">> \o table_columns \o <<")", ";">>

InsertInto(table_name) ==
    <<"I","N","S","E","R","T"," ","i","n","t","o"," ">> \o Underscored(table_name)
        \o <<" ","V","A","L","U","E","S"," ">>

\* the loop of create_insert_statement over the rows, insert_statement so far
RECURSIVE InsertLoop(_, _, _)
InsertLoop(table_name, rows, insert_statement) ==
    IF rows = <<>> THEN insert_statement
    ELSE LET cleaned_row == clean_row(Head(rows))
             tuple == <<"(">> \o Join(cleaned_row, <<",", " ">>) \o <<")">>
             next == IF cleaned_row = <<>> THEN insert_statement
                     ELSE IF insert_statement = <<>>
                          THEN InsertInto(table_name) \o tuple
                          ELSE insert_statement \o <<",", " ">> \o tuple
         IN  InsertLoop(table_name, Tail(rows), next)

\* variant that starts from the INSERT prefix instead of the empty string
create_insert_statement_prefixed(table_name, body) ==
    LET rows == get_raw_table_rows(body)
    IN  IF rows.kind # "Ok" THEN rows
        ELSE LET tuples == SelectSeq(rows.val, LAMBDA r : r # <<>>)
             IN  Ok(InsertInto(table_name)
                      \o Join([i \in DOMAIN tuples |->
                                 <<"(">> \o Join(clean_row(tuples[i]), <<",", " ">>) \o <<")">>],
                              <<",", " ">>)
                      \o <<";">>)

create_insert_statement(table_name, body) ==
    LET rows == get_raw_table_rows(body)
    IN  IF rows.kind # "Ok" THEN rows
        ELSE Ok(InsertLoop(table_name, rows.val, <<>>) \o <<";">>)

\* tuples of a statement built by create_insert_statement
TupleCount(body) ==
    Cardinality({i \in 2..Len(body.rows) : body.rows[i] # <<>>})

----------------------------------------------------------------------------
(* Database collaborator.  sqlite::open and Connection::execute succeed or  *)
(* fail as the environment decides (openOk, execOk); calls lists what the   *)
(* function did on the database, in order.                                  *)

create_table(table_name, headers_and_types, openOk, execOk) ==
    IF ~openOk
    THEN [res |-> Err("Sqlite3Connection"), calls |-> <<"open_err">>, stmt |-> <<>>]
    ELSE LET statement == create_table_string(table_name, headers_and_types)
         IN  IF execOk
             THEN [res |-> Ok(<<>>), calls |-> <<"open_ok", "create_ok">>,
                   stmt |-> statement]
             ELSE [res |-> Err("CreateTableError"), calls |-> <<"open_ok", "create_err">>,
                   stmt |-> statement]

\* variant that reuses the connection create_table opened
insert_rows_same_connection(table_name, body, openOk, execOk) ==
    LET insert_statement == create_insert_statement(table_name, body)
    IN  IF insert_statement.kind # "Ok"
        THEN [res |-> insert_statement, calls |-> <<>>, stmt |-> <<>>]
        ELSE IF execOk
             THEN [res |-> Ok(<<>>), calls |-> <<"insert_ok">>,
                   stmt |-> insert_statement.val]
             ELSE [res |-> Err("Sqlite3InsertError"), calls |-> <<"insert_err">>,
                   stmt |-> insert_statement.val]

insert_rows(table_name, body, openOk, execOk) ==
    IF ~openOk
    THEN [res |-> Err("Sqlite3Connection"), calls |-> <<"open_err">>, stmt |-> <<>>]
    ELSE LET insert_statement == create_insert_statement(table_name, body)
         IN  IF insert_statement.kind # "Ok"
             THEN [res |-> insert_statement, calls |-> <<"open_ok">>, stmt |-> <<>>]
             ELSE IF execOk
                  THEN [res |-> Ok(<<>>), calls |-> <<"open_ok", "insert_ok">>,
                        stmt |-> insert_statement.val]
                  ELSE [res |-> Err("Sqlite3InsertError"),
                        calls |-> <<"open_ok", "insert_err">>,
                        stmt |-> insert_statement.val]

----------------------------------------------------------------------------
(* Inputs *)

MaxRows == 2       \* rows of the table body
MaxCells == 2      \* cells of a row
MaxTokens == 3     \* fragments a cell text is made of

CellOptions ==
    { [tag |-> "th", html |-> <<"h", "[", "1", "]">>],
      [tag |-> "td", html |-> <<"5">>],
      [tag |-> "td", html |-> <<"a">>] }

Rows == UNION {[1..n -> CellOptions] : n \in 0..MaxCells}

\* h1 elements of the page: none, or two of which the first names the table
Titles == { <<>>, << <<"a", " ", "b">>, <<"c">> >> }

Docs ==
    {[table |-> FALSE, tbody |-> FALSE, rows |-> <<>>, h1 |-> t] : t \in Titles}
    \cup {[table |-> TRUE, tbody |-> FALSE, rows |-> <<>>, h1 |-> t] : t \in Titles}
    \cup {[table |-> TRUE, tbody |-> TRUE, rows |-> r, h1 |-> t] :
            r \in UNION {[1..n -> Rows] : n \in 0..MaxRows}, t \in Titles}

NoDoc == [table |-> FALSE, tbody |-> FALSE, rows |-> <<>>, h1 |-> <<>>]

\* fragments of cell markup
Tokens ==
    { <<"5">>, <<"a">>, <<" ">>, <<"'">>, <<",">>, <<"%">>, <<".">>, <<"-">>, <<"e">>,
      <<"[", "1", "]">>, <<"<", "i", ">">>, <<"<">>, <<"\n">>,
      <<"&", "n", "b">>, <<"s", "p", ";">>,
      <<"i", "n", "f">>, <<"t", "r", "u", "e">> }

Texts == {Flatten(ts) : ts \in UNION {[1..n -> Tokens] : n \in 0..MaxTokens}}

----------------------------------------------------------------------------
(* One run of extract_data *)

Init ==
    /\ pc = "start"
    /\ doc \in Docs
    /\ result = "none"
    /\ headers = <<>>
    /\ tableName = <<>>
    /\ createStmt = <<>>
    /\ insertStmt = <<>>
    /\ dbLog = <<>>
    /\ dbTable = FALSE
    /\ dbRows = 0
    /\ cell = <<>>
    /\ out = <<>>

\* extract_data, line 116
GetTableHeadersAndTypes ==
    /\ pc = "start"
    /\ LET r == get_table_headers_and_types_from_html(doc)
       IN  IF r.kind = "Ok"
           THEN pc' = "title" /\ headers' = r.val /\ result' = result
           ELSE /\ pc' = "done"
                /\ headers' = headers
                /\ result' = IF r.kind = "Panic" THEN "Panic" ELSE r.err
    /\ UNCHANGED <<doc, tableName, createStmt, insertStmt, dbLog, dbTable, dbRows, cell, out>>

\* extract_data, lines 118-123
GetPageTitle ==
    /\ pc = "title"
    /\ LET titles == get_page_title_from_html(doc)
       IN  IF titles # <<>>
           THEN pc' = "create" /\ tableName' = titles[1] /\ result' = result
           ELSE pc' = "done" /\ tableName' = tableName /\ result' = "TableHeaderNotFound"
    /\ UNCHANGED <<doc, headers, createStmt, insertStmt, dbLog, dbTable, dbRows, cell, out>>

\* extract_data, line 120: create_table(...).unwrap()
CreateTable ==
    /\ pc = "create"
    /\ \E openOk, execOk \in BOOLEAN :
         LET r == create_table(tableName, headers, openOk, execOk)
         IN  /\ dbLog' = dbLog \o r.calls
             /\ createStmt' = r.stmt
             /\ IF r.res.kind = "Ok"
                THEN pc' = "insert" /\ dbTable' = TRUE /\ result' = result
                ELSE pc' = "done" /\ dbTable' = dbTable /\ result' = "Panic"
    /\ UNCHANGED <<doc, headers, tableName, insertStmt, dbRows, cell, out>>

\* extract_data, line 121: the value of insert_rows is the value of the run
InsertRows ==
    /\ pc = "insert"
    /\ \E openOk, execOk \in BOOLEAN :
         LET r == insert_rows(tableName, doc, openOk, execOk)
         IN  /\ dbLog' = dbLog \o r.calls
             /\ insertStmt' = r.stmt
             /\ pc' = "done"
             /\ IF r.res.kind = "Ok"
                THEN result' = "Ok" /\ dbRows' = TupleCount(doc)
                ELSE result' = r.res.err /\ dbRows' = dbRows
    /\ UNCHANGED <<doc, headers, tableName, createStmt, dbTable, cell, out>>

Next == GetTableHeadersAndTypes \/ GetPageTitle \/ CreateTable \/ InsertRows

Spec == Init /\ [][Next]_vars

----------------------------------------------------------------------------
(* The text functions, each applied to one cell text *)

TextInit ==
    /\ pc = "text"
    /\ cell \in Texts
    /\ out = <<>>
    /\ doc = NoDoc
    /\ result = "none"
    /\ headers = <<>>
    /\ tableName = <<>>
    /\ createStmt = <<>>
    /\ insertStmt = <<>>
    /\ dbLog = <<>>
    /\ dbTable = FALSE
    /\ dbRows = 0

pipeVars == <<doc, result, headers, tableName, createStmt, insertStmt, dbLog, dbTable, dbRows>>

RemoveHtmlTags ==
    /\ pc = "text"
    /\ pc' = "remove_html_tags"
    /\ out' = remove_html_tags(cell)
    /\ UNCHANGED <<cell, pipeVars>>

DeriveType ==
    /\ pc = "text"
    /\ pc' = "derive_type"
    /\ out' = derive_type(cell)
    /\ UNCHANGED <<cell, pipeVars>>

CleanRow ==
    /\ pc = "text"
    /\ pc' = "clean_row"
    /\ out' = clean_row(<<cell>>)
    /\ UNCHANGED <<cell, pipeVars>>

TextNext == RemoveHtmlTags \/ DeriveType \/ CleanRow

SpecText == TextInit /\ [][TextNext]_vars

----------------------------------------------------------------------------
(* Properties of a run of extract_data (Spec) *)

Done == pc = "done"

CreateFailed == dbLog \in { <<"open_err">>, <<"open_ok", "create_err">> }

InsertExecuted == \E i \in DOMAIN dbLog : dbLog[i] \in {"insert_ok", "insert_err"}

\* C1: when opening the database for CREATE TABLE or executing it fails, the
\* run returns the corresponding error (Sqlite3Connection / CreateTableError)
\* instead of crashing, and the INSERT is neither built nor executed.
C1_CreateFailureIsReturned ==
    (Done /\ CreateFailed) =>
        /\ result = (IF dbLog = <<"open_err">> THEN "Sqlite3Connection"
                     ELSE "CreateTableError")
        /\ insertStmt = <<>>
        /\ ~InsertExecuted

HasTbody == doc.table /\ doc.tbody

HeaderRowMissing ==
    \/ doc.rows = <<>>
    \/ SelectInnerHtml(doc.rows[1], {"th"}) = <<>>

\* C2: for a table with a tbody whose first row is absent or holds no th
\* cell, get_table_header_names, and with it the run, ends with the error
\* TableHeaderNotFound: no panic and no successful empty header list.
C2_MissingHeaderRowIsAnError ==
    (Done /\ HasTbody /\ HeaderRowMissing) =>
        /\ get_table_header_names(doc) = Err("TableHeaderNotFound")
        /\ result = "TableHeaderNotFound"

HeaderCount == Len(get_table_header_names(doc).val)

DataCellCount == Len(get_table_cells(doc).val)

FewerDataCellsThanHeaders ==
    /\ HasTbody
    /\ doc.rows # <<>>
    /\ DataCellCount < HeaderCount

\* C3: when the table has fewer data cells than header names, so that the
\* types cannot be as many as the headers, the run ends with the error
\* HeaderAndTypesAmountMismatch before any table is created, without a crash.
C3_AmountMismatchIsReturned ==
    (Done /\ FewerDataCellsThanHeaders) =>
        /\ result = "HeaderAndTypesAmountMismatch"
        /\ dbLog = <<>>

InsertBuilt == insertStmt # <<>>

AllBodyRowsEmpty == \A i \in 2..Len(doc.rows) : doc.rows[i] = <<>>

\* C4, as claimed: with every body row empty (or no body row) the statement
\* built for table name N is "INSERT into <N, spaces as underscores> VALUES ;".
C4_DegenerateInsertHasPrefix ==
    (InsertBuilt /\ AllBodyRowsEmpty) =>
        insertStmt = InsertInto(tableName) \o <<";">>

\* C4, amended: with every body row empty (or no body row) the statement
\* built is exactly ";", without INSERT, table name or VALUES.
C4_DegenerateInsertIsSemicolon ==
    (InsertBuilt /\ AllBodyRowsEmpty) => insertStmt = <<";">>

C4_Witness ==
    /\ InsertBuilt
    /\ Len(doc.rows) = 2
    /\ doc.rows[2] = <<>>
    /\ \E i \in DOMAIN tableName : tableName[i] = " "

Opens == Cardinality({i \in DOMAIN dbLog : dbLog[i] \in {"open_ok", "open_err"}})

Executions == SelectSeq(dbLog, LAMBDA e : e \notin {"open_ok", "open_err"})

RunReachedInsert == Done /\ result \in {"Ok", "Sqlite3InsertError"}

InsertOutcome == IF result = "Ok" THEN "insert_ok" ELSE "insert_err"

\* C5, as claimed: a run that succeeds or fails at the INSERT execution opens
\* the database once, executes CREATE TABLE then INSERT on it and nothing
\* else, and a failed INSERT leaves the created table with no rows.
C5_OneConnectionTwoStatements ==
    RunReachedInsert =>
        /\ Opens = 1
        /\ Executions = <<"create_ok", InsertOutcome>>
        /\ result = "Sqlite3InsertError" => (dbTable /\ dbRows = 0)

\* C5, amended: such a run opens the database twice, once in create_table and
\* once in insert_rows, and executes one statement on each connection, the
\* CREATE TABLE first and the INSERT second, and nothing else; a failed INSERT
\* leaves the created table with no rows and the run ends with the insert error.
C5_TwoConnectionsOneStatementEach ==
    RunReachedInsert =>
        /\ dbLog = <<"open_ok", "create_ok", "open_ok", InsertOutcome>>
        /\ result = "Sqlite3InsertError" => (dbTable /\ dbRows = 0)

C5_Witness ==
    /\ Done
    /\ result = "Sqlite3InsertError"
    /\ dbTable
    /\ TupleCount(doc) > 0

----------------------------------------------------------------------------
(* Properties of the text functions (SpecText) *)

\* C6: remove_html_tags is idempotent: applied to its own output it returns
\* that output unchanged.
C6_SanitizeIdempotent ==
    pc = "remove_html_tags" => remove_html_tags(out) = out

Token == out[1]

\* the cell text after tag stripping, apostrophe doubling and citation stripping
TagAndCitationStripped ==
    remove_wiki_citation_links(remove_apostrophe(remove_html_tags(cell)))

\* the same with commas and percent signs removed, then trimmed
FullyCleaned == Trim(clean_integer_or_double_string(TagAndCitationStripped))

IsNumber(s) == ParseI64(s) \/ ParseF64(s)

\* C7: clean_row classifies on the fully cleaned and trimmed string: when it
\* parses as an integer or a float the token is that bare number, otherwise
\* the token is the trimmed text in single quotes.
C7_ClassifiesTrimmedString ==
    pc = "clean_row" =>
        Token = (IF IsNumber(FullyCleaned) THEN FullyCleaned ELSE Quoted(FullyCleaned))

\* C8: for a cell that does not parse as a number, the quoted token still
\* holds the commas and percent signs of the tag- and citation-stripped text.
C8_QuotedTextKeepsPunctuation ==
    (pc = "clean_row" /\ ~IsNumber(FullyCleaned)) =>
        /\ Count(",", Token) = Count(",", TagAndCitationStripped)
        /\ Count("%", Token) = Count("%", TagAndCitationStripped)

HasLetter(s) == \E i \in DOMAIN s : s[i] \in Letters

\* the sample after tag, citation and comma/percent stripping
CleanedSample ==
    clean_integer_or_double_string(remove_wiki_citation_links(remove_html_tags(cell)))

\* C9: a sample whose cleaned form holds a letter and is not the literal true
\* or false is typed TEXT, never INTEGER or REAL.
C9_LettersAreText ==
    (pc = "derive_type" /\ HasLetter(CleanedSample) /\ ~ParseBool(CleanedSample)) =>
        out = "TEXT"

IsQuotedToken(t) == Len(t) >= 2 /\ Head(t) = "'" /\ t[Len(t)] = "'"

Inner(t) == SubSeq(t, 2, Len(t) - 1)

\* every apostrophe of s is followed or preceded by its double
RECURSIVE ApostrophesPaired(_)
ApostrophesPaired(s) ==
    IF s = <<>> THEN TRUE
    ELSE IF Head(s) = "'"
         THEN Len(s) >= 2 /\ s[2] = "'" /\ ApostrophesPaired(SubSeq(s, 3, Len(s)))
         ELSE ApostrophesPaired(Tail(s))

\* C10: in every token clean_row emits in quotes, each apostrophe of the
\* tag-stripped cell text stands doubled between the two outer quotes, so no
\* apostrophe inside them is unpaired, whatever the citation, comma and
\* percent removals took out afterwards; a bare token holds no apostrophe.
C10_ApostrophesDoubled ==
    pc = "clean_row" =>
        IF Count("'", Token) = 0 THEN Count("'", remove_html_tags(cell)) = 0
        ELSE /\ IsQuotedToken(Token)
             /\ Count("'", Inner(Token)) = 2 * Count("'", remove_html_tags(cell))
             /\ ApostrophesPaired(Inner(Token))

\* two apostrophes brought together by the removal of what stood between them
C10_Witness ==
    /\ pc = "clean_row"
    /\ Count("'", remove_html_tags(cell)) = 2
    /\ Count("'", Inner(Token)) = 4
    /\ Len(Inner(Token)) = 4
    /\ Len(cell) > 2

----------------------------------------------------------------------------
(* Properties of a run of extract_data (Spec), continued *)

HeadersInferred == pc \in {"title", "create", "insert", "done"} /\ headers # <<>>

\* the cells get_raw_table_rows gives for the row right after the header row
FirstBodyRow == get_raw_table_rows(doc).val[1]

\* C11: the type declared for column i is derive_type of the i-th cell of the
\* first body row, the cell that becomes the i-th value of the first INSERT
\* tuple, also when rows start with th cells or the header row holds td cells.
C11_TypeFromAlignedCell ==
    (HeadersInferred /\ Len(doc.rows) >= 2) =>
        \A i \in DOMAIN headers :
            i <= Len(FirstBodyRow) => headers[i][2] = derive_type(FirstBodyRow[i])

\* C12: a run on a document without wikitable returns TableNotFound, else
\* without tbody TableBodyNotFound, else without h1 TableHeaderNotFound, and
\* in these three cases nothing is opened or executed on the database.
C12_LocatingFailuresInOrder ==
    (Done /\ (~doc.table \/ ~doc.tbody \/ doc.h1 = <<>>)) =>
        /\ result = (IF ~doc.table THEN "TableNotFound"
                     ELSE IF ~doc.tbody THEN "TableBodyNotFound"
                     ELSE "TableHeaderNotFound")
        /\ dbLog = <<>>

====
